---- MODULE Spec2Model ----
(***************************************************************************)
(* A model of metasrc/tex/normalizer.py: the TeX source normalizer.        *)
(*                                                                         *)
(* A Python str is modelled as a sequence of one-character strings, so     *)
(* that the regular expressions of the module are computed character by    *)
(* character.  Three state machines share the variables:                   *)
(*   Spec       read_tex_file / process_inputs / _sub_line, with the       *)
(*              Python call stack explicit (one frame per read_tex_file);  *)
(*   SpecLeaf   remove_comments and remove_trailing_whitespace;            *)
(*   SpecMacro  replace_macros, one table entry per step.                  *)
(***************************************************************************)
EXTENDS Integers, Sequences, FiniteSets, TLC

VARIABLES
    fs,             \* the file system: absolute path -> content, or NoFile
    root_filepath,  \* argument of the top-level read_tex_file call
    root_dir,       \* argument of the top-level read_tex_file call (or None)
    stack,          \* the call stack: one frame per active read_tex_file
    status,         \* "running" | "returned" | "raised" | "overflow" | "off"
    result,         \* the value returned by the top-level call, or None
    exc,            \* None, or the path whose read_tex_file call is raising
    opened,         \* the paths given to open(), in order
    log,            \* the records written by logger.error, in order
    steps,          \* the number of steps the top-level call has taken
    op,             \* leaf transforms: "idle", or the function applied
    arg,            \* leaf transforms: the tex_source argument
    ret,            \* leaf transforms: the returned text
    macros,         \* replace_macros: the table, in its iteration order
    mi,             \* replace_macros: number of entries already applied
    msrc,           \* replace_macros: the tex_source argument
    mtext           \* replace_macros: the local tex_source

vars == <<fs, root_filepath, root_dir, stack, status, result, exc, opened,
          log, steps, op, arg, ret, macros, mi, msrc, mtext>>

resolverVars == <<fs, root_filepath, root_dir, stack, status, result, exc,
                  opened, log, steps>>
leafVars == <<op, arg, ret>>
macroVars == <<macros, mi, msrc, mtext>>

-----------------------------------------------------------------------------
(* Characters and strings *)

\* Python's None, and the content of a path that cannot be opened: neither
\* is a string of characters.
None == <<"None">>
NoFile == <<"NoFile">>

Bs == "\\"
Nl == "\n"
Tab == "\t"

\* \w of a Python 3 str pattern, over the characters the model uses.
WordChars ==
    {"a","b","c","d","e","f","g","h","i","j","k","l","m","n","o","p","q","r",
     "s","t","u","v","w","x","y","z","A","B","C","D","E","F","G","H","I","J",
     "K","L","M","N","O","P","Q","R","S","T","U","V","W","X","Y","Z","0","1",
     "2","3","4","5","6","7","8","9","_"}

\* [\w/\-\.]
FilenameChars == WordChars \cup {"/", "-", "."}

\* \s
SpaceChars == {" ", "\t", "\n", "\r", "\f"}

\* [\}%\s]
ClosingChars == {"}", "%"} \cup SpaceChars

Min(S) == CHOOSE x \in S : \A y \in S : x <= y

\* s[i:] starts with p (str.startswith at an offset).
StartsWithAt(s, i, p) ==
    /\ i >= 1
    /\ i + Len(p) - 1 <= Len(s)
    /\ \A k \in 1..Len(p) : s[i + k - 1] = p[k]

EndsWith(s, p) ==
    /\ Len(p) <= Len(s)
    /\ \A k \in 1..Len(p) : s[Len(s) - Len(p) + k] = p[k]

\* The first index >= i whose character is not in C (Len(s) + 1 if none):
\* where a greedy character-class run that starts at i ends.
SkipWhile(s, i, C) ==
    LET stops == {j \in i..Len(s) : s[j] \notin C}
    IN  IF stops = {} THEN Len(s) + 1 ELSE Min(stops)

\* The first index >= i whose character is c (Len(s) + 1 if none).
FindChar(s, i, c) ==
    LET hits == {j \in i..Len(s) : s[j] = c}
    IN  IF hits = {} THEN Len(s) + 1 ELSE Min(hits)

RECURSIVE Concat(_)
Concat(ss) == IF ss = <<>> THEN <<>> ELSE Head(ss) \o Concat(Tail(ss))

-----------------------------------------------------------------------------
(* Leaf transforms *)

\* re.sub(r'(?<!\\)%.*$', r'', tex_source, flags=re.M), scanning from i.
\* '.' stops at a newline and '$' matches before it, so a match runs from an
\* unescaped % to the end of its line; the lookbehind reads the subject.
RECURSIVE SubComments(_, _)
SubComments(s, i) ==
    IF i > Len(s) THEN <<>>
    ELSE IF s[i] = "%" /\ (i = 1 \/ s[i - 1] # Bs)
         THEN SubComments(s, FindChar(s, i, Nl))
         ELSE <<s[i]>> \o SubComments(s, i + 1)

\* The pattern without its lookbehind: every % starts a comment.
RECURSIVE SubCommentsAny(_, _)
SubCommentsAny(s, i) ==
    IF i > Len(s) THEN <<>>
    ELSE IF s[i] = "%"
         THEN SubCommentsAny(s, FindChar(s, i, Nl))
         ELSE <<s[i]>> \o SubCommentsAny(s, i + 1)

remove_comments_any(tex_source) == SubCommentsAny(tex_source, 1)

remove_comments(tex_source) == SubComments(tex_source, 1)

\* re.sub(r'[ \t]+$', '', tex_source, flags=re.M), scanning from i.
RECURSIVE SubTrailing(_, _)
SubTrailing(s, i) ==
    IF i > Len(s) THEN <<>>
    ELSE IF s[i] \in {" ", Tab}
         THEN LET j == SkipWhile(s, i, {" ", Tab})
              IN  IF j > Len(s) \/ s[j] = Nl
                  THEN SubTrailing(s, j)
                  ELSE SubSeq(s, i, j - 1) \o SubTrailing(s, j)
         ELSE <<s[i]>> \o SubTrailing(s, i + 1)

remove_trailing_whitespace(tex_source) == SubTrailing(tex_source, 1)

-----------------------------------------------------------------------------
(* The inclusion pattern *)

CmdInput == <<Bs, "i", "n", "p", "u", "t">>
CmdInclude == <<Bs, "i", "n", "c", "l", "u", "d", "e">>

\* Python's None as the result of a match or a search.
NoMatch == [start |-> 0, end |-> 0, command |-> <<>>, filename |-> <<>>]

\* input_include_pattern.match(s, i - 1): the match that starts at i, or
\* NoMatch.  The lazy runs of spaces and of braces and the greedy filename
\* each end where their character class ends, since the classes of
\* consecutive pattern items are disjoint.  end is the index of the closing
\* character, the last character of the match.
MatchAt(s, i) ==
    LET cmd == IF StartsWithAt(s, i, CmdInput) THEN CmdInput
               ELSE IF StartsWithAt(s, i, CmdInclude) THEN CmdInclude
               ELSE <<>>
        j1 == SkipWhile(s, i + Len(cmd), {" "})
        j2 == SkipWhile(s, j1, {"{"})
        j3 == SkipWhile(s, j2, FilenameChars)
    IN  IF cmd # <<>> /\ j3 > j2 /\ j3 <= Len(s) /\ s[j3] \in ClosingChars
        THEN [start |-> i, end |-> j3, command |-> Tail(cmd),
              filename |-> SubSeq(s, j2, j3 - 1)]
        ELSE NoMatch

\* input_include_pattern.search(s, pos - 1): the leftmost match at or after pos.
input_include_pattern(s, pos) ==
    LET starts == {i \in pos..Len(s) : MatchAt(s, i) # NoMatch}
    IN  IF starts = {} THEN NoMatch ELSE MatchAt(s, Min(starts))

-----------------------------------------------------------------------------
(* os.path (posixpath) *)

Slash == "/"
Dot == <<".">>
DotDot == <<".", ".">>
TexSuffix == <<".", "t", "e", "x">>

\* The process's current working directory, which os.path.abspath reads.
Cwd == <<"/", "p", "r", "o", "j">>

isabs(p) == StartsWithAt(p, 1, <<Slash>>)

\* p.split('/')
RECURSIVE Split(_)
Split(p) ==
    LET j == FindChar(p, 1, Slash)
    IN  IF j > Len(p) THEN <<p>>
        ELSE <<SubSeq(p, 1, j - 1)>> \o Split(SubSeq(p, j + 1, Len(p)))

\* '/'.join(comps)
RECURSIVE JoinSlash(_)
JoinSlash(comps) ==
    IF comps = <<>> THEN <<>>
    ELSE IF Len(comps) = 1 THEN comps[1]
    ELSE comps[1] \o <<Slash>> \o JoinSlash(Tail(comps))

\* os.path.join(a, b)
join(a, b) ==
    IF isabs(b) THEN b
    ELSE IF a = <<>> \/ a[Len(a)] = Slash THEN a \o b
    ELSE a \o <<Slash>> \o b

\* The loop of normpath over the components, new_comps so far in acc.
RECURSIVE NormComps(_, _, _)
NormComps(comps, acc, initial_slashes) ==
    IF comps = <<>> THEN acc
    ELSE LET comp == Head(comps)
         IN  IF comp = <<>> \/ comp = Dot
             THEN NormComps(Tail(comps), acc, initial_slashes)
             ELSE IF \/ comp # DotDot
                     \/ (initial_slashes = 0 /\ acc = <<>>)
                     \/ (acc # <<>> /\ acc[Len(acc)] = DotDot)
             THEN NormComps(Tail(comps), Append(acc, comp), initial_slashes)
             ELSE IF acc # <<>>
             THEN NormComps(Tail(comps), SubSeq(acc, 1, Len(acc) - 1),
                            initial_slashes)
             ELSE NormComps(Tail(comps), acc, initial_slashes)

\* os.path.normpath(path)
normpath(path) ==
    IF path = <<>> THEN Dot
    ELSE LET initial_slashes ==
                 IF ~isabs(path) THEN 0
                 ELSE IF StartsWithAt(path, 1, <<Slash, Slash>>)
                         /\ ~StartsWithAt(path, 1, <<Slash, Slash, Slash>>)
                      THEN 2 ELSE 1
             body == JoinSlash(NormComps(Split(path), <<>>, initial_slashes))
             p == [k \in 1..initial_slashes |-> Slash] \o body
         IN  IF p = <<>> THEN Dot ELSE p

\* os.path.abspath(path)
abspath(path) == normpath(IF isabs(path) THEN path ELSE join(Cwd, path))

\* os.path.dirname(p)
dirname(p) ==
    LET slashes == {k \in 1..Len(p) : p[k] = Slash}
        i == IF slashes = {} THEN 0 ELSE CHOOSE k \in slashes : \A m \in slashes : m <= k
        head == SubSeq(p, 1, i)
        keep == {k \in 1..Len(head) : head[k] # Slash}
    IN  IF keep = {} THEN head
        ELSE SubSeq(head, 1, CHOOSE k \in keep : \A m \in keep : m <= k)

-----------------------------------------------------------------------------
(* replace_macros: one pass *)

\* The pattern without its r"\\?": the backslash after the name stays.
RECURSIVE SubMacroKeepSlash(_, _, _, _)
SubMacroKeepSlash(s, macro_name, macro_content, i) ==
    IF i > Len(s) THEN <<>>
    ELSE IF StartsWithAt(s, i, macro_name)
         THEN macro_content
              \o SubMacroKeepSlash(s, macro_name, macro_content,
                                   i + Len(macro_name))
         ELSE <<s[i]>> \o SubMacroKeepSlash(s, macro_name, macro_content, i + 1)

\* re.sub(re.escape(macro_name) + r"\\?", lambda x: macro_content, s),
\* scanning from i: the name taken literally, then one backslash if there
\* is one; the replacement is the content as it stands.
RECURSIVE SubMacro(_, _, _, _)
SubMacro(s, macro_name, macro_content, i) ==
    IF i > Len(s) THEN <<>>
    ELSE IF StartsWithAt(s, i, macro_name)
         THEN LET e == i + Len(macro_name)
                  next == IF e <= Len(s) /\ s[e] = Bs THEN e + 1 ELSE e
              IN  macro_content \o SubMacro(s, macro_name, macro_content, next)
         ELSE <<s[i]>> \o SubMacro(s, macro_name, macro_content, i + 1)

-----------------------------------------------------------------------------
(* read_tex_file, process_inputs, _sub_line *)

\* Recursion depth the model follows; a deeper call ends the run in status
\* "overflow" (CPython: RecursionError, which nothing in the module catches).
MaxDepth == 6

\* What open(path, 'r').read() gives: the operating system resolves the path
\* against the working directory.
FileContent(path) ==
    LET p == abspath(path)
    IN  IF p \in DOMAIN fs THEN fs[p] ELSE NoFile

\* The frame of a read_tex_file call that has not run yet.
Frame(path, dir) ==
    [root_filepath |-> path, root_dir |-> dir, pc |-> "open",
     tex_source |-> <<>>, pos |-> 1, out |-> <<>>, fname |-> <<>>]

Top == stack[Len(stack)]
Pop == SubSeq(stack, 1, Len(stack) - 1)

\* Lines 81-86: root_dir defaults to the directory of the file; the two leaf
\* transforms run on what was read.
Normalized(frame, content) ==
    [frame EXCEPT
        !.root_dir = IF frame.root_dir = None
                     THEN dirname(frame.root_filepath) ELSE @,
        !.tex_source = remove_trailing_whitespace(remove_comments(content)),
        !.pc = "sub"]

\* Lines 120-125 of _sub_line: the path of the file a match names.
FullPath(dir, fname) ==
    LET full_fname == IF ~EndsWith(fname, TexSuffix)
                      THEN fname \o TexSuffix ELSE fname
    IN  abspath(join(dir, full_fname))

\* A resolver that seeks the named file beside the file holding the
\* directive, which the code does not do.
NestedFrameOwnDir(frame, match) ==
    Frame(FullPath(dirname(frame.root_filepath), match.filename),
          dirname(frame.root_filepath))

\* Line 128: root_dir is handed on to the nested read_tex_file.
NestedFrame(frame, match) ==
    Frame(FullPath(frame.root_dir, match.filename), frame.root_dir)

\* A substitution that replaces the match up to, not including, its
\* closing character, which the code does not do.
AtMatchKeepClosing(frame, match) ==
    [frame EXCEPT
        !.out = @ \o SubSeq(frame.tex_source, frame.pos, match.start - 1),
        !.pos = match.end,
        !.fname = match.filename]

\* re.sub copies the text between the previous match and this one, and
\* goes on after this match's closing character; line 120 of _sub_line.
AtMatch(frame, match) ==
    [frame EXCEPT
        !.out = @ \o SubSeq(frame.tex_source, frame.pos, match.start - 1),
        !.pos = match.end + 1,
        !.fname = match.filename]

\* re.sub puts what _sub_line returned in place of the match.
Spliced(frame, included_source) ==
    [frame EXCEPT !.out = @ \o included_source]

\* Lines 135-136: what re.sub returns once no match is left.
Substituted(frame) ==
    frame.out \o SubSeq(frame.tex_source, frame.pos, Len(frame.tex_source))

\* Lines 78-86: the file opens; its text is read and normalized.
ReadFile ==
    /\ status = "running" /\ exc = None /\ stack # <<>>
    /\ Top.pc = "open"
    /\ FileContent(Top.root_filepath) # NoFile
    /\ opened' = Append(opened, Top.root_filepath)
    /\ stack' = Append(Pop, Normalized(Top, FileContent(Top.root_filepath)))
    /\ UNCHANGED <<fs, root_filepath, root_dir, status, result, exc, log>>
    /\ steps' = steps + 1
    /\ UNCHANGED <<leafVars, macroVars>>

\* Line 78: open raises IOError, which leaves this read_tex_file call.
OpenFails ==
    /\ status = "running" /\ exc = None /\ stack # <<>>
    /\ Top.pc = "open"
    /\ FileContent(Top.root_filepath) = NoFile
    /\ opened' = Append(opened, Top.root_filepath)
    /\ exc' = Top.root_filepath
    /\ stack' = Pop
    /\ status' = IF Len(stack) = 1 THEN "raised" ELSE status
    /\ UNCHANGED <<fs, root_filepath, root_dir, result, log>>
    /\ steps' = steps + 1
    /\ UNCHANGED <<leafVars, macroVars>>

\* A _sub_line with a cycle guard, which the code does not have: a
\* directive naming a file that is being read is replaced by nothing.
SubLineGuarded ==
    /\ status = "running" /\ exc = None /\ stack # <<>>
    /\ Top.pc = "sub"
    /\ Len(stack) < MaxDepth
    /\ LET match == input_include_pattern(Top.tex_source, Top.pos)
           nested == Frame(FullPath(Top.root_dir, match.filename),
                           Top.root_dir)
       IN  /\ match # NoMatch
           /\ stack' =
                 IF \E k \in 1..Len(stack) :
                        abspath(stack[k].root_filepath) = nested.root_filepath
                 THEN Append(Pop, AtMatch(Top, match))
                 ELSE Append(Append(Pop, AtMatch(Top, match)), nested)
    /\ UNCHANGED <<fs, root_filepath, root_dir, status, result, exc, opened,
                   log>>
    /\ steps' = steps + 1
    /\ UNCHANGED <<leafVars, macroVars>>

\* Lines 118-128: re.sub finds the next match and calls _sub_line, which
\* calls read_tex_file on the file the match names.
SubLine ==
    /\ status = "running" /\ exc = None /\ stack # <<>>
    /\ Top.pc = "sub"
    /\ Len(stack) < MaxDepth
    /\ LET match == input_include_pattern(Top.tex_source, Top.pos)
       IN  /\ match # NoMatch
           /\ stack' = Append(Append(Pop, AtMatch(Top, match)),
                              NestedFrame(Top, match))
    /\ UNCHANGED <<fs, root_filepath, root_dir, status, result, exc, opened,
                   log>>
    /\ steps' = steps + 1
    /\ UNCHANGED <<leafVars, macroVars>>

\* The same call at the depth the model stops at.
RecursionLimit ==
    /\ status = "running" /\ exc = None /\ stack # <<>>
    /\ Top.pc = "sub"
    /\ Len(stack) >= MaxDepth
    /\ input_include_pattern(Top.tex_source, Top.pos) # NoMatch
    /\ status' = "overflow"
    /\ stack' = <<>>
    /\ UNCHANGED <<fs, root_filepath, root_dir, result, exc, opened, log>>
    /\ steps' = steps + 1
    /\ UNCHANGED <<leafVars, macroVars>>

\* Lines 132-136 and 89: no match is left; read_tex_file returns the text,
\* to the caller's re.sub or, at the top, to the caller of the module.
ReturnText ==
    /\ status = "running" /\ exc = None /\ stack # <<>>
    /\ Top.pc = "sub"
    /\ input_include_pattern(Top.tex_source, Top.pos) = NoMatch
    /\ IF Len(stack) = 1
       THEN /\ result' = Substituted(Top)
            /\ status' = "returned"
            /\ stack' = <<>>
       ELSE /\ stack' = Append(SubSeq(stack, 1, Len(stack) - 2),
                               Spliced(stack[Len(stack) - 1], Substituted(Top)))
            /\ UNCHANGED <<result, status>>
    /\ UNCHANGED <<fs, root_filepath, root_dir, exc, opened, log>>
    /\ steps' = steps + 1
    /\ UNCHANGED <<leafVars, macroVars>>

\* An except clause that logs and goes on with an empty replacement, which
\* the code does not do.
LogAndSwallow ==
    /\ status = "running" /\ exc # None /\ stack # <<>>
    /\ log' = Append(log, exc)
    /\ exc' = None
    /\ UNCHANGED <<fs, root_filepath, root_dir, stack, status, result,
                   opened>>
    /\ steps' = steps + 1
    /\ UNCHANGED <<leafVars, macroVars>>

\* Lines 129-131: the IOError of the nested read_tex_file reaches the
\* except clause of the caller's _sub_line, which logs full_path and raises
\* again; the exception then leaves the caller's read_tex_file.
LogAndReraise ==
    /\ status = "running" /\ exc # None /\ stack # <<>>
    /\ log' = Append(log, exc)
    /\ exc' = Top.root_filepath
    /\ stack' = Pop
    /\ status' = IF Len(stack) = 1 THEN "raised" ELSE status
    /\ UNCHANGED <<fs, root_filepath, root_dir, result, opened>>
    /\ steps' = steps + 1
    /\ UNCHANGED <<leafVars, macroVars>>

-----------------------------------------------------------------------------
(* Paths and file contents of the runs *)

\* the project directory: '/proj'
ProjDir == <<"/", "p", "r", "o", "j">>

\* '/proj/main.tex'
MainTex ==
    <<"/", "p", "r", "o", "j", "/", "m", "a", "i", "n", ".", "t", "e", "x">>

\* '/proj/a.tex'
ATex == <<"/", "p", "r", "o", "j", "/", "a", ".", "t", "e", "x">>

\* '/proj/b.tex'
BTex == <<"/", "p", "r", "o", "j", "/", "b", ".", "t", "e", "x">>

\* '/proj/parts/a.tex'
PartsATex ==
    <<"/", "p", "r", "o", "j", "/", "p", "a", "r", "t", "s", "/", "a", ".",
      "t", "e", "x">>

\* '/proj/parts/b.tex'
PartsBTex ==
    <<"/", "p", "r", "o", "j", "/", "p", "a", "r", "t", "s", "/", "b", ".",
      "t", "e", "x">>

\* '/proj/my.tex'
MyTex == <<"/", "p", "r", "o", "j", "/", "m", "y", ".", "t", "e", "x">>

\* a path relative to the working directory: 'main.tex'
RelMainTex == <<"m", "a", "i", "n", ".", "t", "e", "x">>

\* no directive: 'x'
TextPlain == <<"x">>

\* a directive between two characters: 'u\input{parts/a}v'
TextParts ==
    <<"u", Bs, "i", "n", "p", "u", "t", "{", "p", "a", "r", "t", "s", "/",
      "a", "}", "v">>

\* a directive that ends a line: '\input{a}\n'
TextLine == <<Bs, "i", "n", "p", "u", "t", "{", "a", "}", Nl>>

\* comment, trailing blanks, both commands, a blank as closing character: 'x \input{a} y % c\n\include b.tex  \nz'
TextMixed ==
    <<"x", " ", Bs, "i", "n", "p", "u", "t", "{", "a", "}", " ", "y", " ",
      "%", " ", "c", Nl, Bs, "i", "n", "c", "l", "u", "d", "e", " ", "b",
      ".", "t", "e", "x", " ", " ", Nl, "z">>

\* a blank inside the braces: '\input{my file}'
TextMyFile ==
    <<Bs, "i", "n", "p", "u", "t", "{", "m", "y", " ", "f", "i", "l", "e",
      "}">>

\* nested braces: '\input{a{b}}'
TextNested == <<Bs, "i", "n", "p", "u", "t", "{", "a", "{", "b", "}", "}">>

\* a character that is neither a filename nor a closing character: '\input{a~b} y'
TextTilde ==
    <<Bs, "i", "n", "p", "u", "t", "{", "a", "~", "b", "}", " ", "y">>

\* a readable target, then a missing one: '\input{a}\input{m}'
TextThenMissing ==
    <<Bs, "i", "n", "p", "u", "t", "{", "a", "}", Bs, "i", "n", "p", "u",
      "t", "{", "m", "}">>

\* includes itself: 't\input{main}'
TextSelf == <<"t", Bs, "i", "n", "p", "u", "t", "{", "m", "a", "i", "n", "}">>

\* a missing target before a self-inclusion: '\input{m}\input{main}'
TextMissingThenSelf ==
    <<Bs, "i", "n", "p", "u", "t", "{", "m", "}", Bs, "i", "n", "p", "u",
      "t", "{", "m", "a", "i", "n", "}">>

\* an absolute name and a name with dot components: '\input{/proj/b} \input{./parts/../a.tex}'
TextAbsolute ==
    <<Bs, "i", "n", "p", "u", "t", "{", "/", "p", "r", "o", "j", "/", "b",
      "}", " ", Bs, "i", "n", "p", "u", "t", "{", ".", "/", "p", "a", "r",
      "t", "s", "/", ".", ".", "/", "a", ".", "t", "e", "x", "}">>

\* an escaped marker, and a comment right after the directive: 'a \% b\input{b}% c'
TextEscaped ==
    <<"a", " ", Bs, "%", " ", "b", Bs, "i", "n", "p", "u", "t", "{", "b",
      "}", "%", " ", "c">>

\* text with trailing blanks: 'A  \n'
TextA == <<"A", " ", " ", Nl>>

\* a directive with no closing character before the end of the file: '\input b'
TextOpenEnd == <<Bs, "i", "n", "p", "u", "t", " ", "b">>

\* includes b: '[\input{b}]'
TextInputB == <<"[", Bs, "i", "n", "p", "u", "t", "{", "b", "}", "]">>

\* includes a file that does not exist: '\input{m}\n'
TextInputM == <<Bs, "i", "n", "p", "u", "t", "{", "m", "}", Nl>>

\* includes main: '\include{main}'
TextInputMain ==
    <<Bs, "i", "n", "c", "l", "u", "d", "e", "{", "m", "a", "i", "n", "}">>

\* 'B'
TextB == <<"B">>

\* includes a: '\input{a}'
TextInputA == <<Bs, "i", "n", "p", "u", "t", "{", "a", "}">>

\* '% only a comment\n'
TextComment ==
    <<"%", " ", "o", "n", "l", "y", " ", "a", " ", "c", "o", "m", "m", "e",
      "n", "t", Nl>>

\* 'Q'
TextPartsB == <<"Q">>

\* 'MY'
TextMy == <<"M", "Y">>

-----------------------------------------------------------------------------
(* The runs of read_tex_file that are followed *)

\* TextMixed with a.tex = TextA and b.tex = TextB, flattened: 'x A\n y\nBz'
FlatMixed == <<"x", " ", "A", Nl, " ", "y", Nl, "B", "z">>

\* the file TextThenMissing names and no project holds: '/proj/m.tex'
MissingTex == <<"/", "p", "r", "o", "j", "/", "m", ".", "t", "e", "x">>

\* 'b'
NameB == <<"b">>

\* The files a project may hold.
Paths == {MainTex, ATex, BTex, PartsATex, PartsBTex, MyTex}

MainTexts ==
    {TextPlain, TextParts, TextLine, TextMixed, TextMyFile, TextNested,
     TextTilde, TextThenMissing, TextSelf, TextMissingThenSelf, TextAbsolute,
     TextEscaped, NoFile}
ATexts == {TextA, TextOpenEnd, TextInputB, TextInputM, TextInputMain, NoFile}
BTexts == {TextB, TextInputA, TextComment, NoFile}
PartsATexts == {TextInputB, NoFile}
PartsBTexts == {TextPartsB, NoFile}
MyTexts == {TextMy, NoFile}

Project(main, a, b, partsA, partsB, my) ==
    [p \in Paths |->
        IF p = MainTex THEN main
        ELSE IF p = ATex THEN a
        ELSE IF p = BTex THEN b
        ELSE IF p = PartsATex THEN partsA
        ELSE IF p = PartsBTex THEN partsB
        ELSE my]

Projects ==
    {Project(main, a, b, partsA, partsB, my) :
        main \in MainTexts, a \in ATexts, b \in BTexts,
        partsA \in PartsATexts, partsB \in PartsBTexts, my \in MyTexts}

\* The arguments of the top-level call: <<root_filepath, root_dir>>.
Calls ==
    {<<MainTex, None>>, <<MainTex, ProjDir>>, <<RelMainTex, None>>,
     <<PartsATex, None>>, <<PartsATex, ProjDir>>}

\* Pieces of TeX source a root file is put together from.
Fragments ==
    {CmdInput \o <<"{", "a", "}">>, CmdInclude \o <<" ", "b">>,
     CmdInput \o <<"{", "a", ".", "t", "e", "x">>, <<Bs, "i", "n", "p">>,
     <<"u", "t", "{", "b", "}">>, <<"x">>, <<"}">>, <<" ">>, <<Nl>>, <<"%">>,
     <<Bs>>}

\* Number of fragments of a root file put together from fragments.
MaxFrags == 2

RECURSIVE TextsOf(_)
TextsOf(n) ==
    IF n = 0 THEN {<<>>}
    ELSE LET shorter == TextsOf(n - 1)
         IN  shorter \cup {t \o f : t \in shorter, f \in Fragments}

ResolverIdle ==
    /\ op = "off" /\ arg = <<>> /\ ret = <<>>
    /\ macros = <<>> /\ mi = 0 /\ msrc = <<>> /\ mtext = <<>>

\* The top-level call read_tex_file(root_filepath, root_dir) has been made.
Called ==
    /\ stack = <<Frame(root_filepath, root_dir)>>
    /\ status = "running"
    /\ result = None
    /\ exc = None
    /\ opened = <<>>
    /\ log = <<>>
    /\ steps = 0

InitProject ==
    /\ fs \in Projects
    /\ \E call \in Calls : root_filepath = call[1] /\ root_dir = call[2]
    /\ Called
    /\ ResolverIdle

InitFragments ==
    /\ fs \in {Project(main, a, TextB, NoFile, NoFile, NoFile) :
                  main \in TextsOf(MaxFrags), a \in {TextA, TextOpenEnd}}
    /\ root_filepath = MainTex
    /\ root_dir = None
    /\ Called
    /\ ResolverIdle

Init == InitProject \/ InitFragments

Next ==
    \/ ReadFile
    \/ OpenFails
    \/ SubLine
    \/ RecursionLimit
    \/ ReturnText
    \/ LogAndReraise

Spec == Init /\ [][Next]_vars

-----------------------------------------------------------------------------
(* The leaf transforms, called on their own *)

\* Length of the texts given to the leaf transforms.
MaxLen == 5

LeafChars == {"a", Bs, "%", Nl, " ", Tab}

RECURSIVE StringsOver(_, _)
StringsOver(C, n) ==
    IF n = 0 THEN {<<>>}
    ELSE LET shorter == StringsOver(C, n - 1)
         IN  shorter \cup {Append(t, c) : t \in shorter, c \in C}

ResolverOff ==
    /\ fs = <<>> /\ root_filepath = <<>> /\ root_dir = None
    /\ stack = <<>> /\ status = "off" /\ result = None /\ exc = None
    /\ opened = <<>> /\ log = <<>> /\ steps = 0

InitLeaf ==
    /\ arg \in StringsOver(LeafChars, MaxLen)
    /\ op = "idle"
    /\ ret = <<>>
    /\ macros = <<>> /\ mi = 0 /\ msrc = <<>> /\ mtext = <<>>
    /\ ResolverOff

\* remove_comments(arg)
RemoveComments ==
    /\ op = "idle"
    /\ ret' = remove_comments(arg)
    /\ op' = "remove_comments"
    /\ UNCHANGED <<arg, resolverVars, macroVars>>

\* remove_trailing_whitespace(arg)
RemoveTrailingWhitespace ==
    /\ op = "idle"
    /\ ret' = remove_trailing_whitespace(arg)
    /\ op' = "remove_trailing_whitespace"
    /\ UNCHANGED <<arg, resolverVars, macroVars>>

NextLeaf == RemoveComments \/ RemoveTrailingWhitespace

SpecLeaf == InitLeaf /\ [][NextLeaf]_vars

-----------------------------------------------------------------------------
(* replace_macros *)

\* Length of the texts given to replace_macros.
MaxMacroLen == 4

\* Number of entries of a macro table.
MaxEntries == 2

MacroChars == {Bs, "a", "b", " "}

\* Macro names, with their leading backslash.
MacroNames == {<<Bs, "a">>, <<Bs, "b">>}

MacroContents == {<<"X">>, <<>>, <<Bs, "a">>, <<Bs, "b">>, <<"b">>}

Entries == [name : MacroNames, content : MacroContents]

\* A dict in its iteration order: its keys are distinct.
RECURSIVE TablesOf(_)
TablesOf(n) ==
    IF n = 0 THEN {<<>>}
    ELSE LET shorter == TablesOf(n - 1)
         IN  shorter \cup
             UNION {{Append(t, e) : e \in
                        {x \in Entries :
                            \A k \in 1..Len(t) : t[k].name # x.name}} :
                    t \in shorter}

\* the macro of the second docstring example: '\product'
NameProduct == <<Bs, "p", "r", "o", "d", "u", "c", "t">>

\* 'Data Management'
ContentProduct ==
    <<"D", "a", "t", "a", " ", "M", "a", "n", "a", "g", "e", "m", "e", "n",
      "t">>

\* '{ \product\ Test Plan}'
SampleProduct ==
    <<"{", " ", Bs, "p", "r", "o", "d", "u", "c", "t", Bs, " ", "T", "e",
      "s", "t", " ", "P", "l", "a", "n", "}">>

\* '{ Data Management Test Plan}'
ExpectedProduct ==
    <<"{", " ", "D", "a", "t", "a", " ", "M", "a", "n", "a", "g", "e", "m",
      "e", "n", "t", " ", "T", "e", "s", "t", " ", "P", "l", "a", "n", "}">>

\* the macro of the first docstring example: '\handle'
NameHandle == <<Bs, "h", "a", "n", "d", "l", "e">>

\* 'LDM-nnn'
ContentHandle == <<"L", "D", "M", "-", "n", "n", "n">>

\* 'This is document \handle.'
SampleHandle ==
    <<"T", "h", "i", "s", " ", "i", "s", " ", "d", "o", "c", "u", "m", "e",
      "n", "t", " ", Bs, "h", "a", "n", "d", "l", "e", ".">>

\* 'This is document LDM-nnn.'
ExpectedHandle ==
    <<"T", "h", "i", "s", " ", "i", "s", " ", "d", "o", "c", "u", "m", "e",
      "n", "t", " ", "L", "D", "M", "-", "n", "n", "n", ".">>

DocTables ==
    {<<[name |-> NameProduct, content |-> ContentProduct]>>,
     <<[name |-> NameHandle, content |-> ContentHandle]>>,
     <<[name |-> NameHandle, content |-> ContentHandle],
       [name |-> NameProduct, content |-> ContentProduct]>>}

MacroCalled ==
    /\ mi = 0
    /\ mtext = msrc
    /\ op = "macros"
    /\ arg = <<>> /\ ret = <<>>
    /\ ResolverOff

\* replace_macros(msrc, macros) has been called.
InitMacro ==
    /\ \/ /\ macros \in TablesOf(MaxEntries)
          /\ msrc \in StringsOver(MacroChars, MaxMacroLen)
       \/ /\ macros \in DocTables
          /\ msrc \in {SampleProduct, SampleHandle}
    /\ MacroCalled

\* The loop with every pass over the argument instead of the running text.
ReplaceMacroOnSource ==
    /\ op = "macros"
    /\ mi < Len(macros)
    /\ mtext' = SubMacro(msrc, macros[mi + 1].name, macros[mi + 1].content, 1)
    /\ mi' = mi + 1
    /\ UNCHANGED <<macros, msrc, op, arg, ret, resolverVars>>

\* Lines 176-187: one turn of the loop over macros.items().
ReplaceMacro ==
    /\ op = "macros"
    /\ mi < Len(macros)
    /\ mtext' = SubMacro(mtext, macros[mi + 1].name, macros[mi + 1].content, 1)
    /\ mi' = mi + 1
    /\ UNCHANGED <<macros, msrc, op, arg, ret, resolverVars>>

\* Line 188: the loop is over; tex_source is returned.
ReturnMacros ==
    /\ op = "macros"
    /\ mi = Len(macros)
    /\ ret' = mtext
    /\ op' = "macros_done"
    /\ UNCHANGED <<macros, msrc, mi, mtext, arg, resolverVars>>

NextMacro == ReplaceMacro \/ ReturnMacros

SpecMacro == InitMacro /\ [][NextMacro]_vars

-----------------------------------------------------------------------------
(* Properties of the leaf transforms *)

\* s.split(c)
RECURSIVE SplitOn(_, _)
SplitOn(s, c) ==
    LET j == FindChar(s, 1, c)
    IN  IF j > Len(s) THEN <<s>>
        ELSE <<SubSeq(s, 1, j - 1)>> \o SplitOn(SubSeq(s, j + 1, Len(s)), c)

\* A comment marker that is not escaped, and one that is.
UnescapedAt(s, p) == s[p] = "%" /\ (p = 1 \/ s[p - 1] # Bs)
EscapedAt(s, p) == s[p] = "%" /\ p > 1 /\ s[p - 1] = Bs

EscapedMarkers(s) == {p \in 1..Len(s) : EscapedAt(s, p)}
UnescapedMarkers(s) == {p \in 1..Len(s) : UnescapedAt(s, p)}

\* A line up to its first unescaped marker.
CutLine(line) ==
    IF UnescapedMarkers(line) = {} THEN line
    ELSE SubSeq(line, 1, Min(UnescapedMarkers(line)) - 1)

\* C9, as amended: remove_comments cuts every line at its first unescaped
\* '%' and keeps the line's newline; a '%' right after a backslash starts no
\* comment and stays in the output unless it stands after an unescaped '%'
\* of its own line.
C9_LinesCutAtFirstUnescaped ==
    op = "remove_comments" =>
        LET inLines == SplitOn(arg, Nl)
            outLines == SplitOn(ret, Nl)
        IN  /\ Len(outLines) = Len(inLines)
            /\ \A k \in 1..Len(inLines) : outLines[k] = CutLine(inLines[k])
            /\ UnescapedMarkers(ret) = {}

\* C9 case: an escaped marker is kept, a comment is removed, a newline stays.
C9_Witness ==
    /\ op = "remove_comments"
    /\ EscapedMarkers(ret) # {}
    /\ UnescapedMarkers(arg) # {}
    /\ \E p \in 1..Len(ret) : ret[p] = Nl

\* C9 as stated: no escaped marker is ever stripped (each '%' that follows a
\* backslash in the input is still in the output), and no unescaped one is
\* left.
C9_EscapedNeverStripped ==
    op = "remove_comments" =>
        /\ Cardinality(EscapedMarkers(ret)) = Cardinality(EscapedMarkers(arg))
        /\ UnescapedMarkers(ret) = {}

-----------------------------------------------------------------------------
(* Properties of replace_macros *)

\* Length of the match of name (and one backslash, if there) at j.
OccurrenceLen(s, name, j) ==
    Len(name) + (IF j + Len(name) <= Len(s) /\ s[j + Len(name)] = Bs
                 THEN 1 ELSE 0)

\* The name occurs at i and no earlier occurrence reaches over i: the
\* non-overlapping occurrences, leftmost first.
RECURSIVE Occurrence(_, _, _)
Occurrence(s, name, i) ==
    /\ StartsWithAt(s, i, name)
    /\ \A j \in 1..(i - 1) :
          Occurrence(s, name, j) => j + OccurrenceLen(s, name, j) <= i

InOccurrence(s, name, k) ==
    \E j \in 1..(k - 1) :
        Occurrence(s, name, j) /\ k < j + OccurrenceLen(s, name, j)

\* s with every occurrence replaced by content and all else as it was.
Replaced(s, name, content) ==
    Concat([k \in 1..Len(s) |->
                IF Occurrence(s, name, k) THEN content
                ELSE IF InOccurrence(s, name, k) THEN <<>>
                ELSE <<s[k]>>])

Contains(s, p) == \E i \in 1..Len(s) : StartsWithAt(s, i, p)

\* C7: the pass of a table entry replaces every non-overlapping occurrence
\* of the macro name, with the backslash that directly follows it if there
\* is one, by the content as it stands, and leaves all other text as it
\* was; the docstring examples come out as documented.
C7_EntryReplaced ==
    /\ mi = 1 =>
          mtext = Replaced(msrc, macros[1].name, macros[1].content)
    /\ (op = "macros_done" /\ msrc = SampleProduct
            /\ macros = <<[name |-> NameProduct, content |-> ContentProduct]>>)
          => ret = ExpectedProduct
    /\ (op = "macros_done" /\ msrc = SampleHandle
            /\ macros = <<[name |-> NameHandle, content |-> ContentHandle]>>)
          => ret = ExpectedHandle

\* C7 case: the trailing backslash of '\product\ ' has been consumed.
C7_Witness ==
    /\ op = "macros_done"
    /\ msrc = SampleProduct
    /\ macros = <<[name |-> NameProduct, content |-> ContentProduct]>>
    /\ ret = ExpectedProduct
    /\ ~Contains(ret, <<Bs>>)

\* The passes of the entries of t in order, each over the result of the
\* one before.
RECURSIVE InOrder(_, _)
InOrder(s, t) ==
    IF t = <<>> THEN s
    ELSE Replaced(InOrder(s, SubSeq(t, 1, Len(t) - 1)),
                  t[Len(t)].name, t[Len(t)].content)

\* C8: the entries are applied in the table's iteration order, each pass
\* over the output of the pass before; content that a later entry inserts
\* is not matched again by an earlier entry, so an earlier name inside it
\* stays in the result.
C8_PassesInOrder ==
    op = "macros_done" =>
        /\ ret = InOrder(msrc, macros)
        /\ (/\ Len(macros) = 2
            /\ Contains(macros[2].content, macros[1].name)
            /\ Contains(Replaced(msrc, macros[1].name, macros[1].content),
                        macros[2].name))
              => Contains(ret, macros[1].name)

\* C8 case: content inserted by the first entry held the second entry's
\* name and was substituted by it, and the table in the other order gives
\* another result.
C8_Witness ==
    /\ op = "macros_done"
    /\ Len(macros) = 2
    /\ Contains(msrc, macros[1].name)
    /\ Contains(macros[1].content, macros[2].name)
    /\ ~Contains(ret, macros[2].name)
    /\ ret # InOrder(msrc, <<macros[2], macros[1]>>)

-----------------------------------------------------------------------------
(* Properties of read_tex_file *)

\* The root directory fixed by the top-level call.
TopRootDir == IF root_dir = None THEN dirname(root_filepath) ELSE root_dir

\* The file a directive's filename stands for under the directory dir.
Target(dir, fname) ==
    abspath(join(dir, IF EndsWith(fname, TexSuffix) THEN fname
                      ELSE fname \o TexSuffix))

\* The comment-stripped, whitespace-trimmed text of a file.
Processed(path) ==
    remove_trailing_whitespace(remove_comments(FileContent(path)))

\* The pattern matches at i and no earlier directive reaches over i: the
\* directives of t, leftmost first.
RECURSIVE DirectiveStart(_, _)
DirectiveStart(t, i) ==
    /\ MatchAt(t, i) # NoMatch
    /\ \A j \in 1..(i - 1) : DirectiveStart(t, j) => MatchAt(t, j).end < i

InDirective(t, k) ==
    \E j \in 1..(k - 1) : DirectiveStart(t, j) /\ k <= MatchAt(t, j).end

\* The text of path with the whole span of every directive, closing
\* character included, replaced by the text of its target, and so on
\* below; every other character stays, in its place.
RECURSIVE Flattened(_, _)
Flattened(path, dir) ==
    LET t == Processed(path)
    IN  Concat([k \in 1..Len(t) |->
                   IF DirectiveStart(t, k)
                   THEN Flattened(Target(dir, MatchAt(t, k).filename), dir)
                   ELSE IF InDirective(t, k) THEN <<>>
                   ELSE <<t[k]>>])

\* C1: what read_tex_file returns is the processed text of the file with
\* every directive's matched span, closing character included, replaced by
\* the resolved content of the file it names ('.tex' appended when the name
\* does not end in it), and all other text unchanged and in order.
C1_DirectivesSpliced ==
    status = "returned" => result = Flattened(root_filepath, TopRootDir)

\* C1 case: a root file with a comment, trailing blanks and two directives
\* (a brace and a newline as closing characters) has been flattened.
C1_Witness ==
    /\ status = "returned"
    /\ root_filepath = MainTex
    /\ fs[MainTex] = TextMixed /\ fs[ATex] = TextA /\ fs[BTex] = TextB
    /\ opened = <<MainTex, ATex, BTex>>
    /\ result = FlatMixed

\* C2 as stated: a returned text holds no match of the inclusion pattern.
C2_NoDirectiveLeft ==
    status = "returned" => input_include_pattern(result, 1) = NoMatch

\* C3: at every depth, the file a directive names is sought under the root
\* directory fixed by the top-level call, not under the directory of the
\* file that holds the directive.
C3_RootDirAtEveryDepth ==
    \A k \in 2..Len(stack) :
        /\ stack[k].root_filepath = Target(TopRootDir, stack[k - 1].fname)
        /\ stack[k].root_dir = TopRootDir

\* C3 case: parts/a.tex, included from main.tex, names b; the call two
\* levels down reads <root>/b.tex while <root>/parts/b.tex exists too.
C3_Witness ==
    /\ root_filepath = MainTex /\ root_dir = None
    /\ Len(stack) = 3
    /\ stack[2].root_filepath = PartsATex
    /\ stack[2].fname = NameB
    /\ stack[3].root_filepath = BTex
    /\ stack[3].pc = "sub"
    /\ fs[PartsBTex] # NoFile
    /\ opened = <<MainTex, PartsATex, BTex>>

\* An open() of the run has failed.
ReadFailed == \E i \in 1..Len(opened) : FileContent(opened[i]) = NoFile

\* C4: once a file of the chain cannot be read, nothing is opened after it,
\* the error is on its way up (or has reached the caller of the top-level
\* call), and no text is ever returned, whatever was resolved before.
C4_FailureAbortsAll ==
    /\ ReadFailed =>
          /\ FileContent(opened[Len(opened)]) = NoFile
          /\ result = None
          /\ \/ status = "raised" /\ stack = <<>>
             \/ status = "running" /\ exc # None /\ stack # <<>>
    /\ status = "raised" => ReadFailed /\ result = None
    /\ status = "returned" => ~ReadFailed

\* C4 case: the first directive of the root file was resolved, the second
\* names a missing file, and the top-level call has raised.
C4_Witness ==
    /\ status = "raised"
    /\ result = None
    /\ Len(opened) = 3
    /\ FileContent(opened[2]) # NoFile
    /\ stack = <<>>

\* C5 as stated: a failed run has logged exactly one record, the path of
\* the file that could not be read.
C5_LoggedOnce ==
    status = "raised" => log = <<abspath(opened[Len(opened)])>>

\* An input or include command at i, followed by a brace, whose braces hold
\* a character that is no filename character.
MalformedAt(t, i) ==
    LET cmd == IF StartsWithAt(t, i, CmdInput) THEN CmdInput
               ELSE IF StartsWithAt(t, i, CmdInclude) THEN CmdInclude
               ELSE <<>>
        open == i + Len(cmd)
        close == FindChar(t, open, "}")
    IN  /\ cmd # <<>>
        /\ open <= Len(t) /\ t[open] = "{"
        /\ close <= Len(t)
        /\ \E k \in (open + 1)..(close - 1) : t[k] \notin FilenameChars

CommandAt(t, i) == StartsWithAt(t, i, CmdInput) \/ StartsWithAt(t, i, CmdInclude)

\* C6 as stated: when every directive of the root file has a character
\* outside the filename characters inside its braces, no file but the root
\* is opened, nothing is raised and the text passes through unchanged.
C6_MalformedPassesThrough ==
    (/\ stack = <<>>
     /\ FileContent(root_filepath) # NoFile
     /\ \E i \in 1..Len(Processed(root_filepath)) :
            MalformedAt(Processed(root_filepath), i)
     /\ \A i \in 1..Len(Processed(root_filepath)) :
            CommandAt(Processed(root_filepath), i)
                => MalformedAt(Processed(root_filepath), i))
    => /\ status = "returned"
       /\ result = Processed(root_filepath)
       /\ opened = <<root_filepath>>

\* The files the directives of path name.
Includes(path) ==
    LET content == FileContent(path)
    IN  IF content = NoFile THEN {}
        ELSE LET t == remove_trailing_whitespace(remove_comments(content))
                 dir == TopRootDir
             IN  {Target(dir, MatchAt(t, i).filename) :
                     i \in {k \in 1..Len(t) : DirectiveStart(t, k)}}

\* The files at the end of a chain of n directives that starts at the root.
RECURSIVE AtDepth(_)
AtDepth(n) ==
    IF n = 0 THEN {abspath(root_filepath)}
    ELSE UNION {Includes(p) : p \in AtDepth(n - 1)}

\* A file reachable from the root includes itself, directly or not: some
\* chain of directives is longer than the number of files that exist.
Cyclic == AtDepth(Cardinality(Paths) + 1) # {}

\* The number of steps read_tex_file(path) takes from its call to its end,
\* and re.sub takes on t from pos on, when nothing below raises (raising
\* only drops steps).  Defined when the include graph is acyclic.
RECURSIVE StepsToRead(_, _)
RECURSIVE StepsToSubstitute(_, _, _)
StepsToRead(path, dir) ==
    IF FileContent(path) = NoFile THEN 1
    ELSE 1 + StepsToSubstitute(Processed(path), 1, dir)

StepsToSubstitute(t, pos, dir) ==
    LET match == input_include_pattern(t, pos)
    IN  IF match = NoMatch THEN 1
        ELSE 1 + StepsToRead(Target(dir, match.filename), dir)
               + StepsToSubstitute(t, match.end + 1, dir)

\* The call is over, or a step of it can be taken.
EndedOrStepping ==
    \/ status \in {"returned", "raised", "overflow"} /\ stack = <<>>
    \/ /\ status = "running" /\ stack # <<>>
       /\ exc # None \/ Top.pc \in {"open", "sub"}

\* C10: there is no cycle or depth guard.  With an acyclic include graph
\* the call ends, by returning or by raising the file-access error: a step
\* can be taken until the call is over, and the steps taken never exceed a
\* number fixed by the files (which a returning call takes exactly).  When
\* a reachable file includes itself the top-level call never returns.
C10_TerminatesIffAcyclic ==
    /\ EndedOrStepping
    /\ IF Cyclic
       THEN status # "returned"
       ELSE /\ status # "overflow"
            /\ steps <= StepsToRead(root_filepath, TopRootDir)
            /\ status = "returned"
                  => steps = StepsToRead(root_filepath, TopRootDir)

\* C10 case: main.tex and a.tex include each other and have been read over
\* and over, down to the depth the model follows.
C10_Witness ==
    /\ status = "overflow"
    /\ Len(opened) = MaxDepth
    /\ opened[1] = MainTex /\ opened[2] = ATex
    /\ opened[3] = MainTex /\ opened[4] = ATex
    /\ Cyclic

====
